---- MODULE Spec2Model ----
(***************************************************************************)
(* Model of bibliomania: the parallel ingestion pipeline                   *)
(* (smart_ingest.py) writing the DuckDB store, and the embedding cache of  *)
(* the serving layer (semantic_engine.py, main.py) reading and filling it. *)
(***************************************************************************)
EXTENDS Integers, Sequences, FiniteSets, Bags, TLC

(***************************************************************************)
(* Bounds of the model.                                                    *)
(***************************************************************************)
NumShards == 2
MaxRuns == 2
MaxBatch == 2
MaxRaceBatch == 1
MaxIngests == 1

(***************************************************************************)
(* Identifiers and the records a shard can hold.                           *)
(***************************************************************************)
Shards == 1..NumShards

\* the worker processes of the pool (NUM_PROCESSES of them in the source)
Workers == {"p1", "p2"}

WorkIds == {"W1", "W2", "W3"}

\* an entry of referenced_works on which ref.split raises (not a string)
BadRef == "!"

\* One line of a shard.  pre: json.loads, the concept scan or work['id']
\* raises; match: the concepts meet TARGET_CONCEPT_IDS; f stands for the
\* non-key fields of the work; refs is referenced_works.
Rec(pre, match, id, f, refs) ==
    [pre |-> pre, match |-> match, id |-> id, f |-> f, refs |-> refs]

ShardContents ==
    << << Rec(FALSE, TRUE, "W1", 1, <<"W2", "W3">>),
          Rec(TRUE,  TRUE, "W3", 1, <<"W1">>) >>,
       << Rec(FALSE, TRUE, "W1", 2, <<"W2">>),
          Rec(FALSE, TRUE, "W2", 1, <<"W1", BadRef, "W3">>) >>,
       << Rec(FALSE, FALSE, "W3", 1, <<"W1">>),
          Rec(FALSE, TRUE, "W2", 2, <<>>) >> >>

\* the buckets the runs can find: which content each shard has
Layouts == { [s \in Shards |-> ShardContents[((s + k) % Len(ShardContents)) + 1]] :
             k \in {0, 2} }

\* What can go wrong while one task runs: nothing, the construction of the
\* S3 client, the download, the gzip/text stream, the removal of the temp file.
Faults == {"none", "client", "download", "stream", "cleanup"}

\* the two kinds of fault: of the fetch and parse of the shard, and the others
FaultClass(fault) ==
    IF fault = "none" THEN "none"
    ELSE IF fault \in {"download", "stream"} THEN "fetchparse"
    ELSE "other"

\* the listings of the bucket: keys come back in ascending order
RECURSIVE Ascending(_)
Ascending(S) ==
    IF S = {} THEN << >>
    ELSE LET m == CHOOSE x \in S : \A y \in S : x <= y
         IN  <<m>> \o Ascending(S \ {m})

KeyLists == { Ascending(S) : S \in SUBSET Shards }

(***************************************************************************)
(* The serving layer: the documents handed to the embedding cache.         *)
(***************************************************************************)
\* the requests in flight in the serving process
Callers == {"a", "b"}

Titles == {"t1", "t2"}

\* a paper as get_embeddings takes it: its id and its text
Doc(id, title) == [id |-> id, title |-> title]

Docs == {Doc("W1", "t1"), Doc("W1", "t2"), Doc("W2", "t1")}

RECURSIVE SeqsUpTo(_, _)
SeqsUpTo(S, n) ==
    IF n = 0 THEN {<< >>}
    ELSE LET shorter == SeqsUpTo(S, n - 1)
         IN  shorter \cup {Append(q, x) : q \in {t \in shorter : Len(t) = n - 1}, x \in S}

Batches == SeqsUpTo(Docs, MaxBatch)

\* the batches of the requests that interleave
RaceBatches == SeqsUpTo(Docs, MaxRaceBatch)

\* no vector
NoVec == << >>

VARIABLES
    \* ---- the persistent store (openalex_local.db)
    works,          \* table works: set of rows [id, f]
    citations,      \* table citations: bag of <<source_id, target_id>>
    vector_cache,   \* table vector_cache: set of rows [paper_id, embedding]
    fts,            \* the full-text index: whether it exists, the ids it covers
    \* ---- the input
    shardRecs,      \* the lines of every shard of the bucket
    \* ---- smart_ingest.main
    run,            \* number of the ingestion run
    mpc,            \* position of the main process
    mcon,           \* main holds an open connection
    merr,           \* why main crashed
    all_keys,       \* the listed keys
    jfault,         \* the kind of fault each started job of this run meets
    files_done,
    total_papers,
    \* ---- the pool
    taskNext,       \* next job to hand to a worker
    wpc,            \* position of each worker
    wjob,           \* job a worker runs
    wres,           \* the running task: its fault, how its try block went so far
    wcon,           \* a worker holds a store connection
    tmp,            \* the temp files that exist, by name
    outq,           \* results ready for the writer loop, in completion order
    \* ---- the serving process (semantic_engine, one call per caller)
    is_loaded,      \* SemanticEngine.is_loaded
    gpc,            \* position of each call of get_embeddings
    gpapers,        \* its papers
    gemb,           \* its embeddings dict
    gmiss,          \* the missing papers not stored yet, with their new vectors
    gcon,           \* the call holds an open connection
    gerr,           \* what the call raised
    genc,           \* encoder invocations of the call
    ghit,           \* the ids the call found in the cache
    gstored,        \* the ids the call wrote to the cache
    gop,            \* the method the caller is in
    gsim,           \* the list calculate_similarity returns
    ingests,        \* ingestion batches written while serving
    retLog,         \* history: the vector last returned for each id
    gargs,          \* seed_id and limit of each call of calculate_similarity
    xcall,          \* the expand_graph request: its argument, its course, its response
    \* ---- history
    yielded,        \* how often each job was handed to the writer loop in this run
    firstSeen,      \* fields of the first insert seen for an identifier
    attempted,      \* rows ever given to the insert into works
    mutators        \* processes that issued a mutating statement

storeVars == <<works, citations, vector_cache, fts>>
mainVars == <<run, mpc, mcon, merr, all_keys, jfault, files_done, total_papers>>
poolVars == <<taskNext, wpc, wjob, wres, wcon, tmp, outq>>
histVars == <<yielded, firstSeen, attempted, mutators>>
ingestVars == <<storeVars, shardRecs, mainVars, poolVars, histVars>>
callVars == <<gpc, gpapers, gemb, gmiss, gcon, gerr, genc, ghit, gstored, gop, gsim>>
expandVars == <<gargs, xcall>>
serveVars == <<is_loaded, callVars, ingests, retLog, expandVars>>

NoIndex == [exists |-> FALSE, ids |-> {}]

\* no call of calculate_similarity: no arguments
NoArgs == [seed |-> "", limit |-> 0]

\* no request of expand_graph in the serving process
NoRequest == [pc |-> "idle"]
MainProc == "main"

(***************************************************************************)
(* The worker task: process_single_file.                                   *)
(***************************************************************************)
EmptyPair == [works |-> << >>, cits |-> << >>]

\* lines 94-95: one edge per reference, until a reference raises
RECURSIVE ExplodeRefs(_, _)
ExplodeRefs(id, refs) ==
    IF refs = << >> \/ Head(refs) = BadRef THEN << >>
    ELSE << <<id, Head(refs)>> >> \o ExplodeRefs(id, Tail(refs))

\* lines 72-98: the body of the loop for one line
ProcessRecord(r) ==
    IF r.pre \/ ~r.match THEN EmptyPair
    ELSE [works |-> << [id |-> r.id, f |-> r.f] >>,
          cits  |-> ExplodeRefs(r.id, r.refs)]

\* lines 70-98: the lists after the first n lines of the stream
RECURSIVE ProcessLines(_, _)
ProcessLines(recs, n) ==
    IF n = 0 THEN EmptyPair
    ELSE LET before == ProcessLines(recs, n - 1)
             this == ProcessRecord(recs[n])
         IN  [works |-> before.works \o this.works,
              cits  |-> before.cits \o this.cits]

\* a try block that would cover the download alone
CaughtDownloadOnly(fault) == fault = "download"

\* lines 66-101: the failures the try block of the task catches
Caught(fault) == fault \in {"download", "stream"}


\* what a task hands back through the pool: a value, or the exception it raised
OkResult(job, pair) == [job |-> job, ok |-> TRUE, works |-> pair.works, cits |-> pair.cits]
ExcResult(job) == [job |-> job, ok |-> FALSE, works |-> << >>, cits |-> << >>]

\* a task that would write its own batch to the store
WorkerStatementsDirect(pair) == pair.works

\* process_single_file never touches the store ("Does NOT connect to DB"):
\* the statements a task issues on the store for its batch
WorkerStatements(pair) == << >>

(***************************************************************************)
(* The store engine: the statements of smart_ingest.main.                  *)
(***************************************************************************)
HasId(tbl, id) == \E r \in tbl : r.id = id

\* INSERT INTO works (no conflict clause): a duplicate key is an error
PlainInsertWork(tbl, row) ==
    IF HasId(tbl, row.id) THEN [rows |-> tbl, err |-> TRUE]
    ELSE [rows |-> tbl \cup {row}, err |-> FALSE]

\* INSERT OR REPLACE INTO works: the later row wins
InsertOrReplaceWork(tbl, row) ==
    [rows |-> {r \in tbl : r.id # row.id} \cup {row}, err |-> FALSE]

\* line 139: INSERT OR IGNORE INTO works, for one row
InsertOrIgnoreWork(tbl, row) ==
    IF HasId(tbl, row.id) THEN [rows |-> tbl, err |-> FALSE]
    ELSE [rows |-> tbl \cup {row}, err |-> FALSE]

\* line 139: executemany runs the statement once per row, in order
RECURSIVE ExecManyWorks(_, _)
ExecManyWorks(tbl, batch) ==
    IF batch = << >> THEN [rows |-> tbl, err |-> FALSE]
    ELSE LET one == InsertOrIgnoreWork(tbl, Head(batch))
         IN  IF one.err THEN one ELSE ExecManyWorks(one.rows, Tail(batch))

\* INSERT ... WHERE NOT EXISTS: an edge already stored is not stored again
InsertCitationDedup(bag, edge) ==
    IF BagIn(edge, bag) THEN bag ELSE bag (+) SetToBag({edge})

\* line 145: INSERT INTO citations, for one row
InsertCitation(bag, edge) == bag (+) SetToBag({edge})

RECURSIVE ExecManyCitations(_, _)
ExecManyCitations(bag, batch) ==
    IF batch = << >> THEN bag
    ELSE ExecManyCitations(InsertCitation(bag, Head(batch)), Tail(batch))

\* lines 153-157: INSTALL/LOAD fts, then create_fts_index without overwrite;
\* any error (extension not installable, index already there) is swallowed
CreateFtsIndex(index, tbl, installed) ==
    IF ~installed THEN index
    ELSE IF index.exists THEN index
    ELSE [exists |-> TRUE, ids |-> {r.id : r \in tbl}]

\* history: the fields first given for each identifier
RECURSIVE FirstSeenAfter(_, _)
FirstSeenAfter(fs, batch) ==
    IF batch = << >> THEN fs
    ELSE LET row == Head(batch)
         IN  FirstSeenAfter(IF fs[row.id] = 0 THEN [fs EXCEPT ![row.id] = row.f] ELSE fs,
                            Tail(batch))

SeqToSet(s) == {s[i] : i \in DOMAIN s}


(***************************************************************************)
(* smart_ingest.main: the Store Writer and its pool.                       *)
(***************************************************************************)
IdleWorkers == [w \in Workers |-> "idle"]

\* a worker between two tasks
NoTask == [fault |-> "none", failed |-> FALSE, exc |-> FALSE]

\* lines 110-133: connect, init_db, list the keys, start the pool.  The
\* tables exist after the first run (CREATE TABLE IF NOT EXISTS).
MainSetup ==
    /\ mpc = "start"
    /\ \E keys \in KeyLists :
            /\ all_keys' = keys
            /\ jfault' = [j \in DOMAIN keys |-> "unset"]
    /\ mcon' = TRUE
    /\ mutators' = mutators \cup {MainProc}
    /\ files_done' = 0
    /\ total_papers' = 0
    /\ taskNext' = 1
    /\ outq' = << >>
    /\ yielded' = [j \in DOMAIN all_keys' |-> 0]
    /\ mpc' = "loop"
    /\ UNCHANGED <<storeVars, shardRecs, run, merr, wpc, wjob, wres, wcon, tmp,
                   firstSeen, attempted>>
    /\ UNCHANGED serveVars

\* lines 56-57: local_filename, temp_chunk_<pid>.gz, of the process w
TempName(w) == <<"temp_chunk", w>>

\* a cleanup at the end of the try block instead of a finally block
CleanupOnSuccess(raised) == ~raised

\* lines 102-105: the finally block runs whether the try block raised or not
CleanupRuns(raised) == TRUE

\* lines 56-68: a free worker takes the next key, builds its S3 client
\* (outside the try block) and downloads the shard into temp_chunk_<pid>.gz
TaskFetch(w) ==
    /\ mpc = "loop"
    /\ wpc[w] = "idle"
    /\ taskNext <= Len(all_keys)
    /\ taskNext' = taskNext + 1
    /\ \E fault \in Faults :
        /\ jfault' = [jfault EXCEPT ![taskNext] = FaultClass(fault)]
        /\ IF fault \in {"client", "download"}
           THEN /\ tmp' = tmp
                /\ IF fault = "client" /\ ~Caught(fault)
                   THEN /\ wpc' = wpc
                        /\ wjob' = wjob
                        /\ wres' = wres
                        /\ outq' = Append(outq, ExcResult(taskNext))
                   ELSE /\ wpc' = [wpc EXCEPT ![w] = "fetched"]
                        /\ wjob' = [wjob EXCEPT ![w] = taskNext]
                        /\ wres' = [wres EXCEPT ![w] = [fault |-> fault,
                                                        failed |-> TRUE,
                                                        exc |-> ~Caught(fault)]]
                        /\ outq' = outq
           ELSE /\ tmp' = tmp \cup {TempName(w)}
                /\ wpc' = [wpc EXCEPT ![w] = "fetched"]
                /\ wjob' = [wjob EXCEPT ![w] = taskNext]
                /\ wres' = [wres EXCEPT ![w] = [fault |-> fault, failed |-> FALSE,
                                                exc |-> FALSE]]
                /\ outq' = outq
    /\ UNCHANGED <<storeVars, shardRecs, run, mpc, mcon, merr, all_keys, files_done,
                   total_papers, wcon, histVars>>
    /\ UNCHANGED serveVars

\* lines 70-101: the lists the task holds when it leaves the try block; a
\* stream that breaks after n lines leaves them as they are at that point
FoundLists(recs, fault, failed, n) ==
    IF failed THEN EmptyPair
    ELSE IF fault = "stream" THEN ProcessLines(recs, n)
    ELSE ProcessLines(recs, Len(recs))

\* lines 70-107: read the stream line by line, then the finally block
\* removes the temp file and the task returns its lists (or the exception
\* it could not catch leaves it)
TaskFinish(w) ==
    /\ wpc[w] = "fetched"
    /\ LET job == wjob[w]
           fault == wres[w].fault
           recs == shardRecs[all_keys[job]]
           exists == TempName(w) \in tmp
           raised == wres[w].failed \/ fault = "stream"
           removeFails == exists /\ CleanupRuns(raised) /\ fault = "cleanup" /\ ~Caught(fault)
       IN  \E n \in (IF fault = "stream" /\ ~wres[w].failed THEN 0..Len(recs) ELSE {Len(recs)}) :
              LET pair == FoundLists(recs, fault, wres[w].failed, n)
                  exc == wres[w].exc
                         \/ (~wres[w].failed /\ fault = "stream" /\ ~Caught(fault))
                  stmts == WorkerStatements(pair)
              IN  /\ wres' = [wres EXCEPT ![w] = NoTask]
                  /\ tmp' = IF CleanupRuns(raised) /\ ~removeFails
                            THEN tmp \ {TempName(w)} ELSE tmp
                  /\ outq' = Append(outq, IF removeFails \/ exc
                                          THEN ExcResult(job)
                                          ELSE OkResult(job, pair))
                  /\ wcon' = [wcon EXCEPT ![w] = @ \/ stmts # << >>]
                  /\ works' = ExecManyWorks(works, stmts).rows
                  /\ mutators' = IF stmts # << >> THEN mutators \cup {w} ELSE mutators
    /\ wpc' = [wpc EXCEPT ![w] = "idle"]
    /\ wjob' = [wjob EXCEPT ![w] = 0]
    /\ UNCHANGED <<citations, vector_cache, fts, shardRecs, mainVars, taskNext,
                   yielded, firstSeen, attempted>>
    /\ UNCHANGED serveVars

\* lines 134-149: one turn of the writer loop on the next ready result; an
\* exception raised by the task is raised again here and ends main
WriterStep ==
    /\ mpc = "loop"
    /\ outq # << >>
    /\ LET res == Head(outq)
           ins == ExecManyWorks(works, res.works)
           raised == ~res.ok \/ ins.err
       IN  /\ outq' = Tail(outq)
           /\ yielded' = [yielded EXCEPT ![res.job] = @ + 1]
           /\ IF res.ok
              THEN /\ files_done' = files_done + 1
                   /\ works' = ins.rows
                   /\ attempted' = attempted \cup SeqToSet(res.works)
                   /\ firstSeen' = FirstSeenAfter(firstSeen, res.works)
              ELSE UNCHANGED <<files_done, works, attempted, firstSeen>>
           /\ IF raised
              THEN \* the exception leaves the with block: the pool is terminated
                   /\ mpc' = "crashed"
                   /\ merr' = IF res.ok THEN "insert" ELSE "task"
                   /\ wpc' = IdleWorkers
                   /\ wjob' = [w \in Workers |-> 0]
                   /\ wres' = [w \in Workers |-> NoTask]
                   /\ UNCHANGED <<citations, total_papers>>
              ELSE /\ total_papers' = total_papers + Len(res.works)
                   /\ citations' = ExecManyCitations(citations, res.cits)
                   /\ UNCHANGED <<mpc, merr, wpc, wjob, wres>>
    /\ UNCHANGED <<vector_cache, fts, shardRecs, run, mcon, all_keys, jfault, taskNext,
                   wcon, tmp, mutators>>
    /\ UNCHANGED serveVars

\* line 133: the pool has yielded a result for every key, the with block ends
PoolExit ==
    /\ mpc = "loop"
    /\ files_done = Len(all_keys)
    /\ mpc' = "index"
    /\ UNCHANGED <<storeVars, shardRecs, run, mcon, merr, all_keys, jfault, files_done,
                   total_papers, poolVars, histVars>>
    /\ UNCHANGED serveVars

\* lines 152-157: the search index, all errors swallowed
CreateIndex ==
    /\ mpc = "index"
    /\ \E installed \in BOOLEAN : fts' = CreateFtsIndex(fts, works, installed)
    /\ mpc' = "close"
    /\ UNCHANGED <<works, citations, vector_cache, shardRecs, run, mcon, merr, all_keys,
                   jfault, files_done, total_papers, poolVars, histVars>>
    /\ UNCHANGED serveVars

\* line 159
CloseCon ==
    /\ mpc = "close"
    /\ mcon' = FALSE
    /\ mpc' = "done"
    /\ UNCHANGED <<storeVars, shardRecs, run, merr, all_keys, jfault, files_done,
                   total_papers, poolVars, histVars>>
    /\ UNCHANGED serveVars

\* the script is started again, on the store the earlier runs left; the new
\* pool's workers are new processes, with temp file names of their own
Rerun ==
    /\ mpc \in {"done", "crashed"}
    /\ run < MaxRuns
    /\ run' = run + 1
    /\ mpc' = "start"
    /\ mcon' = FALSE
    /\ merr' = "none"
    /\ all_keys' = << >>
    /\ jfault' = << >>
    /\ files_done' = 0
    /\ total_papers' = 0
    /\ taskNext' = 1
    /\ wpc' = IdleWorkers
    /\ outq' = << >>
    /\ yielded' = << >>
    /\ wjob' = [w \in Workers |-> 0]
    /\ wres' = [w \in Workers |-> NoTask]
    /\ wcon' = [w \in Workers |-> FALSE]
    /\ tmp' = {}
    /\ UNCHANGED <<storeVars, shardRecs, firstSeen, attempted, mutators>>
    /\ UNCHANGED serveVars

(***************************************************************************)
(* The embedding cache: SemanticEngine.get_embeddings.                     *)
(***************************************************************************)
PaperIds == WorkIds

NoEmbeddings == [id \in PaperIds |-> NoVec]

\* lines 69-74: the encoder, a function of the text; its output is float32.
\* Numbers stand for doubles, the even ones for those float32 represents.
Encode(title) ==
    CASE title = "t1" -> <<4, 0>>
      [] title = "t2" -> <<2, 2>>
      [] title = "t3" -> <<0, 4>>
      [] OTHER        -> <<0 - 2, 2>>

\* a cast to a type coarser than the encoder's output
CastCoarse(x) == 4 * (x \div 4)

\* line 83: emb.tolist() widens each float32 to a double, exactly; the
\* column type FLOAT[] of vector_cache casts it back to float32
CastFloat(x) == 2 * (x \div 2)

ToFloatArray(v) == [i \in DOMAIN v |-> CastFloat(v[i])]

CachedIds == {r.paper_id : r \in vector_cache}

\* lines 56-57: the rows of the batch's ids, as a dict
SelectCached(tbl, papers) ==
    [id \in PaperIds |->
        IF (\E i \in DOMAIN papers : papers[i].id = id) /\ (\E r \in tbl : r.paper_id = id)
        THEN (CHOOSE r \in tbl : r.paper_id = id).embedding
        ELSE NoVec]

\* only the first paper the cache lacks
FirstMissingPaper(papers, emb) ==
    LET all == SelectSeq(papers, LAMBDA p : emb[p.id] = NoVec)
    IN  IF all = << >> THEN << >> ELSE <<Head(all)>>

\* line 60: the papers the cache lacks, in the order of the batch
MissingPapers(papers, emb) == SelectSeq(papers, LAMBDA p : emb[p.id] = NoVec)

\* the first output vector taken for every missing paper
NewEmbeddingsFirst(missing) ==
    [i \in DOMAIN missing |-> [id |-> missing[i].id, emb |-> Encode(missing[1].title)]]

\* lines 66-74: one encoder call on the texts of the missing papers; the
\* i-th vector is the i-th paper's
NewEmbeddings(missing) ==
    [i \in DOMAIN missing |-> [id |-> missing[i].id, emb |-> Encode(missing[i].title)]]

\* INSERT INTO a vector_cache without its primary key: the row is added
InsertVecNoKey(tbl, row) == [rows |-> tbl \cup {row}, err |-> FALSE]

\* INSERT INTO vector_cache (no conflict clause): a duplicate key is an error
InsertVecPlain(tbl, row) ==
    IF \E r \in tbl : r.paper_id = row.paper_id
    THEN [rows |-> tbl, err |-> TRUE]
    ELSE [rows |-> tbl \cup {row}, err |-> FALSE]

\* line 83: INSERT OR REPLACE INTO vector_cache
InsertOrReplaceVec(tbl, row) ==
    [rows |-> {r \in tbl : r.paper_id # row.paper_id} \cup {row}, err |-> FALSE]

\* the cached entries handed back although the encoder failed
EncoderFailurePartial(emb) == [pc |-> "returned", result |-> emb]

\* lines 62-74: nothing catches a failure of the tokenizer or the model; it
\* leaves get_embeddings as an exception, with no dict returned
EncoderFailure(emb) == [pc |-> "raised", result |-> NoEmbeddings]

RequestedIds(papers) == {papers[i].id : i \in DOMAIN papers}

\* lines 45-74: load_model, connect, the cache check and the encoder call.
\* how: all goes well, or the model load, the connection or the encoder fails.
GetEmbeddingsBegin(c, papers, how) ==
    /\ gpc[c] = "idle"
    /\ gop' = [gop EXCEPT ![c] = "get_embeddings"]
    /\ gpapers' = [gpapers EXCEPT ![c] = papers]
    /\ UNCHANGED <<gstored, gsim>>
    /\ IF how = "load"
       THEN \* lines 36-38: load_model logs and raises again
            /\ ~is_loaded
            /\ gpc' = [gpc EXCEPT ![c] = "raised"]
            /\ gerr' = [gerr EXCEPT ![c] = "load"]
            /\ UNCHANGED <<is_loaded, gemb, gmiss, gcon, genc, ghit>>
       ELSE /\ is_loaded' = TRUE
            /\ IF how = "connect"
               THEN \* database.py lines 31-33
                    /\ gpc' = [gpc EXCEPT ![c] = "raised"]
                    /\ gerr' = [gerr EXCEPT ![c] = "connect"]
                    /\ UNCHANGED <<gemb, gmiss, gcon, genc, ghit>>
               ELSE IF papers = << >>
               THEN \* lines 53-54: return {} with the connection open
                    /\ how = "ok"
                    /\ gpc' = [gpc EXCEPT ![c] = "returned"]
                    /\ gcon' = [gcon EXCEPT ![c] = TRUE]
                    /\ gemb' = [gemb EXCEPT ![c] = NoEmbeddings]
                    /\ UNCHANGED <<gmiss, gerr, genc, ghit>>
               ELSE LET emb == SelectCached(vector_cache, papers)
                        missing == MissingPapers(papers, emb)
                        failure == EncoderFailure(emb)
                    IN  /\ ghit' = [ghit EXCEPT ![c] = {id \in PaperIds : emb[id] # NoVec}]
                        /\ IF missing = << >>
                           THEN \* lines 85-86
                                /\ how = "ok"
                                /\ gpc' = [gpc EXCEPT ![c] = "returned"]
                                /\ gemb' = [gemb EXCEPT ![c] = emb]
                                /\ UNCHANGED <<gmiss, gcon, gerr, genc>>
                           ELSE /\ genc' = [genc EXCEPT ![c] = 1]
                                /\ gcon' = [gcon EXCEPT ![c] = TRUE]
                                /\ IF how = "encoder"
                                   THEN /\ gpc' = [gpc EXCEPT ![c] = failure.pc]
                                        /\ gemb' = [gemb EXCEPT ![c] = failure.result]
                                        /\ gerr' = [gerr EXCEPT ![c] = "encoder"]
                                        /\ gmiss' = gmiss
                                   ELSE /\ gpc' = [gpc EXCEPT ![c] = "store"]
                                        /\ gemb' = [gemb EXCEPT ![c] = emb]
                                        /\ gmiss' = [gmiss EXCEPT ![c] = NewEmbeddings(missing)]
                                        /\ gerr' = gerr
    /\ UNCHANGED <<ingestVars, ingests, retLog, expandVars>>

\* lines 77-86: the next missing paper goes into the dict and into the cache;
\* after the last one the connection is closed and the dict returned
GetEmbeddingsStore(c) ==
    /\ gpc[c] = "store"
    /\ LET h == Head(gmiss[c])
           ins == InsertOrReplaceVec(vector_cache,
                                     [paper_id |-> h.id, embedding |-> ToFloatArray(h.emb)])
       IN  IF ins.err
           THEN /\ gpc' = [gpc EXCEPT ![c] = "raised"]
                /\ gerr' = [gerr EXCEPT ![c] = "conflict"]
                /\ gemb' = [gemb EXCEPT ![c] = NoEmbeddings]
                /\ UNCHANGED <<vector_cache, gmiss, gcon, gstored>>
           ELSE /\ vector_cache' = ins.rows
                /\ gemb' = [gemb EXCEPT ![c][h.id] = h.emb]
                /\ gstored' = [gstored EXCEPT ![c] = @ \cup {h.id}]
                /\ gmiss' = [gmiss EXCEPT ![c] = Tail(@)]
                /\ IF Tail(gmiss[c]) = << >>
                   THEN /\ gpc' = [gpc EXCEPT ![c] = "returned"]
                        /\ gcon' = [gcon EXCEPT ![c] = FALSE]
                   ELSE UNCHANGED <<gpc, gcon>>
                /\ gerr' = gerr
    /\ UNCHANGED <<works, citations, fts, shardRecs, mainVars, poolVars, histVars,
                   is_loaded, gpapers, genc, ghit, gop, gsim, ingests, retLog,
                   expandVars>>

\* the caller has the dict, or the exception
GetEmbeddingsDone(c) ==
    /\ gop[c] = "get_embeddings"
    /\ gpc[c] \in {"returned", "raised"}
    /\ gop' = [gop EXCEPT ![c] = "none"]
    /\ gsim' = gsim
    /\ retLog' = IF gpc[c] = "returned"
                 THEN [id \in PaperIds |->
                         IF id \in RequestedIds(gpapers[c]) THEN gemb[c][id] ELSE retLog[id]]
                 ELSE retLog
    /\ gpc' = [gpc EXCEPT ![c] = "idle"]
    /\ gpapers' = [gpapers EXCEPT ![c] = << >>]
    /\ gemb' = [gemb EXCEPT ![c] = NoEmbeddings]
    /\ gmiss' = [gmiss EXCEPT ![c] = << >>]
    /\ gcon' = [gcon EXCEPT ![c] = FALSE]
    /\ gerr' = [gerr EXCEPT ![c] = "none"]
    /\ genc' = [genc EXCEPT ![c] = 0]
    /\ ghit' = [ghit EXCEPT ![c] = {}]
    /\ gstored' = [gstored EXCEPT ![c] = {}]
    /\ UNCHANGED <<ingestVars, is_loaded, ingests, expandVars>>

(***************************************************************************)
(* The similarity query: SemanticEngine.calculate_similarity.              *)
(***************************************************************************)
Dot(a, b) == a[1] * b[1] + a[2] * b[2]

\* array_cosine_similarity(a, b) = Dot(a, b) / (|a| |b|), kept exact as the
\* pair <<signed square of the numerator, square of the denominator>>
Cosine(a, b) ==
    LET d == Dot(a, b)
    IN  << (IF d < 0 THEN 0 - d * d ELSE d * d), Dot(a, a) * Dot(b, b) >>

ScoreGeq(x, y) == x[1] * y[2] >= y[1] * x[2]

\* a query with no ORDER BY: any limit rows other than the seed's
RowsUnordered(tbl, seed, seedVec, limit) ==
    LET others == {r \in tbl : r.paper_id # seed}
        k == IF limit < Cardinality(others) THEN limit ELSE Cardinality(others)
    IN  { q \in [1..k -> others] : \A i, j \in 1..k : i < j => q[i] # q[j] }

\* a lookup with no WHERE clause: any row of the table
AnyRows(tbl, seed) == tbl

\* line 95: the rows SELECT ... WHERE paper_id = seed_id finds
SeedRows(tbl, seed) == {r \in tbl : r.paper_id = seed}

\* lines 104-114: the rows other than the seed's, ORDER BY score DESC LIMIT
\* limit; rows of equal score come in any order
RankedLists(tbl, seed, seedVec, limit) ==
    LET others == {r \in tbl : r.paper_id # seed}
        k == IF limit < Cardinality(others) THEN limit ELSE Cardinality(others)
        score(r) == Cosine(r.embedding, seedVec)
    IN  { q \in [1..k -> others] :
            /\ \A i, j \in 1..k : i < j => q[i] # q[j] /\ ScoreGeq(score(q[i]), score(q[j]))
            /\ \A r \in others :
                 (\A i \in 1..k : q[i] # r) => \A i \in 1..k : ScoreGeq(score(q[i]), score(r)) }

\* lines 92-117, as one step; how: all goes well, or the connection fails
CalculateSimilarity(c, seed, limit, how) ==
    /\ gpc[c] = "idle"
    /\ gop' = [gop EXCEPT ![c] = "calculate_similarity"]
    /\ IF how = "connect"
       THEN /\ gpc' = [gpc EXCEPT ![c] = "raised"]
            /\ gerr' = [gerr EXCEPT ![c] = "connect"]
            /\ UNCHANGED <<gsim, gcon>>
       ELSE /\ gpc' = [gpc EXCEPT ![c] = "returned"]
            /\ gerr' = gerr
            /\ IF SeedRows(vector_cache, seed) # {}
               THEN LET seedVec == (CHOOSE r \in SeedRows(vector_cache, seed) : TRUE).embedding
                    IN  /\ \E q \in RankedLists(vector_cache, seed, seedVec, limit) :
                             gsim' = [gsim EXCEPT ![c] =
                                        [i \in DOMAIN q |->
                                           [id |-> q[i].paper_id,
                                            score |-> Cosine(q[i].embedding, seedVec)]]]
                        /\ gcon' = [gcon EXCEPT ![c] = FALSE]
               ELSE \* lines 96-98: no seed vector, return [] with the connection open
                    /\ gsim' = [gsim EXCEPT ![c] = << >>]
                    /\ gcon' = [gcon EXCEPT ![c] = TRUE]
    /\ gargs' = [gargs EXCEPT ![c] = [seed |-> seed, limit |-> limit]]
    /\ UNCHANGED <<ingestVars, is_loaded, gpapers, gemb, gmiss, genc, ghit, gstored,
                   ingests, retLog, xcall>>

\* the caller has the list, or the exception
CalculateSimilarityDone(c) ==
    /\ gop[c] = "calculate_similarity"
    /\ gpc[c] \in {"returned", "raised"}
    /\ gop' = [gop EXCEPT ![c] = "none"]
    /\ gpc' = [gpc EXCEPT ![c] = "idle"]
    /\ gsim' = [gsim EXCEPT ![c] = << >>]
    /\ gcon' = [gcon EXCEPT ![c] = FALSE]
    /\ gerr' = [gerr EXCEPT ![c] = "none"]
    /\ gargs' = [gargs EXCEPT ![c] = NoArgs]
    /\ UNCHANGED <<ingestVars, is_loaded, gpapers, gemb, gmiss, genc, ghit, gstored,
                   ingests, retLog, xcall>>

\* limit: 1, the 5 of expand_graph, the default 20
SimilarLimit == 5
DefaultLimit == 20
Limits == {1, SimilarLimit, DefaultLimit}

NoCallInFlight == \A c \in Callers : gpc[c] = "idle"

\* smart_ingest.main lines 137-145, run while no request is served: one
\* result of a task goes into works and citations
ServeIngest ==
    /\ NoCallInFlight
    /\ ingests < MaxIngests
    /\ ingests' = ingests + 1
    /\ \E s \in Shards :
         LET pair == ProcessLines(shardRecs[s], Len(shardRecs[s]))
         IN  /\ works' = ExecManyWorks(works, pair.works).rows
             /\ citations' = ExecManyCitations(citations, pair.cits)
             /\ attempted' = attempted \cup SeqToSet(pair.works)
             /\ firstSeen' = FirstSeenAfter(firstSeen, pair.works)
    /\ UNCHANGED <<vector_cache, fts, shardRecs, mainVars, poolVars, yielded, mutators,
                   is_loaded, callVars, retLog, expandVars>>

Outcomes == {"ok", "load", "connect", "encoder"}

\* the processes before anything ran, on whatever the store holds
InitIdle ==
    /\ fts = NoIndex
    /\ run = 1
    /\ mpc = "start"
    /\ mcon = FALSE
    /\ merr = "none"
    /\ all_keys = << >>
    /\ jfault = << >>
    /\ files_done = 0
    /\ total_papers = 0
    /\ taskNext = 1
    /\ wpc = IdleWorkers
    /\ wjob = [w \in Workers |-> 0]
    /\ wres = [w \in Workers |-> NoTask]
    /\ wcon = [w \in Workers |-> FALSE]
    /\ tmp = {}
    /\ outq = << >>
    /\ yielded = << >>
    /\ mutators = {}
    /\ is_loaded = FALSE
    /\ gpc = [c \in Callers |-> "idle"]
    /\ gpapers = [c \in Callers |-> << >>]
    /\ gemb = [c \in Callers |-> NoEmbeddings]
    /\ gmiss = [c \in Callers |-> << >>]
    /\ gcon = [c \in Callers |-> FALSE]
    /\ gerr = [c \in Callers |-> "none"]
    /\ genc = [c \in Callers |-> 0]
    /\ ghit = [c \in Callers |-> {}]
    /\ gstored = [c \in Callers |-> {}]
    /\ gop = [c \in Callers |-> "none"]
    /\ gsim = [c \in Callers |-> << >>]
    /\ ingests = 0
    /\ retLog = NoEmbeddings
    /\ gargs = [c \in Callers |-> NoArgs]
    /\ xcall = NoRequest

\* an empty store, as init_db leaves a new database
Init ==
    /\ works = {}
    /\ citations = EmptyBag
    /\ vector_cache = {}
    /\ firstSeen = [id \in WorkIds |-> 0]
    /\ attempted = {}
    /\ shardRecs \in Layouts
    /\ InitIdle

vars == <<ingestVars, serveVars>>

WorkerStep(w) == TaskFetch(w) \/ TaskFinish(w)
MainStep == MainSetup \/ WriterStep \/ PoolExit \/ CreateIndex \/ CloseCon

NextIngest ==
    \/ MainSetup
    \/ \E w \in Workers : TaskFetch(w)
    \/ \E w \in Workers : TaskFinish(w)
    \/ WriterStep
    \/ PoolExit
    \/ CreateIndex
    \/ CloseCon
    \/ Rerun

SpecIngest == Init /\ [][NextIngest]_vars


\* one ingestion run, from the empty store, with every process scheduled
NextRun ==
    \/ MainSetup
    \/ \E w \in Workers : TaskFetch(w)
    \/ \E w \in Workers : TaskFinish(w)
    \/ WriterStep
    \/ PoolExit
    \/ CreateIndex
    \/ CloseCon

SpecIngestRun ==
    /\ Init
    /\ [][NextRun]_vars
    /\ WF_vars(MainStep)
    /\ \A w \in Workers : WF_vars(WorkerStep(w))

(***************************************************************************)
(* Properties of the ingestion pipeline.                                   *)
(***************************************************************************)
Edges == WorkIds \X WorkIds

CountIn(seq, e) == Cardinality({i \in DOMAIN seq : seq[i] = e})

\* C1: the works table holds exactly one row per identifier, with the fields
\* of the first insert seen for it; a later insert with the same identifier
\* changes nothing and raises no error.
C1_IdempotentInsert ==
    /\ \A r1, r2 \in works : r1.id = r2.id => r1 = r2
    /\ \A id \in WorkIds : (firstSeen[id] # 0) <=> HasId(works, id)
    /\ \A r \in works : r.f = firstSeen[r.id]
    /\ merr # "insert"

\* a row with other fields was inserted for an identifier already stored
C1_Witness ==
    \E a \in attempted : a \notin works /\ HasId(works, a.id)

\* the result a job with no fault hands back is in the store
Written(j) ==
    LET recs == shardRecs[all_keys[j]]
        pair == ProcessLines(recs, Len(recs))
    IN  /\ \A i \in DOMAIN pair.works : HasId(works, pair.works[i].id)
        /\ \A e \in Edges : CopiesIn(e, citations) >= CountIn(pair.cits, e)

RunCompleted ==
    /\ mpc = "done"
    /\ files_done = Len(all_keys)
    /\ ~mcon
    /\ \A j \in DOMAIN all_keys : yielded[j] = 1
    /\ \A j \in DOMAIN all_keys : jfault[j] = "none" => Written(j)

FetchParseFaultsOnly == \A j \in DOMAIN jfault : jfault[j] # "other"

\* C2: whatever subset of the shards fails to download or to parse, the pool
\* hands the writer loop one result per submitted shard, never two, the
\* results of the shards without fault are written, and the run completes
\* (files_done = N, the index step, the connection closed).
C2_ShardFailureIsolation ==
    /\ []FetchParseFaultsOnly => <>RunCompleted
    /\ [](\A j \in DOMAIN yielded : yielded[j] <= 1)

C2_Witness ==
    /\ RunCompleted
    /\ Len(all_keys) >= 2
    /\ \E j \in DOMAIN jfault : jfault[j] = "fetchparse"
    /\ \E j \in DOMAIN jfault : jfault[j] = "none" /\ works # {}

\* C3 (as claimed): whatever step of process_single_file fails, the task
\* hands a (documents, edges) pair to the pool and main never sees it raise.
C3_TaskNeverRaises ==
    /\ \A i \in DOMAIN outq : outq[i].ok
    /\ merr # "task"

\* C4: only the main process holds a store connection and issues mutating
\* statements; a worker never does, whatever the workers are doing.
C4_SingleWriter ==
    /\ \A w \in Workers : ~wcon[w]
    /\ mutators \subseteq {MainProc}
    /\ mpc \in {"loop", "index", "close"} => mcon

\* both workers are in a task while main holds the connection it wrote with
C4_Witness ==
    /\ \A w \in Workers : wpc[w] = "fetched"
    /\ mcon
    /\ works # {}
    /\ MainProc \in mutators

\* the writer loop takes a result a task returned
ConsumesResult == mpc = "loop" /\ outq # << >> /\ outq' = Tail(outq) /\ Head(outq).ok

\* C5: run after run, no identifier is stored twice, a stored document row
\* stays as it is, and every edge of every result written is appended once
\* more to citations: none dropped, none deduplicated.
C5_RerunAppendsEdges ==
    [][ /\ works \subseteq works'
        /\ \A r1, r2 \in works' : r1.id = r2.id => r1 = r2
        /\ \A e \in Edges :
             CopiesIn(e, citations') =
                CopiesIn(e, citations)
                  + (IF ConsumesResult THEN CountIn(Head(outq).cits, e) ELSE 0) ]_vars

\* a second run has completed and stored an edge once more
C5_Witness ==
    /\ run = 2
    /\ mpc = "done"
    /\ works # {}
    /\ \E e \in Edges : CopiesIn(e, citations) >= 2


(***************************************************************************)
(* The specifications of the embedding cache: requests served one at a     *)
(* time, and requests whose steps interleave.                              *)
(***************************************************************************)
NextCacheSeq ==
    \/ \E c \in Callers : \E papers \in Batches : \E how \in Outcomes :
          NoCallInFlight /\ GetEmbeddingsBegin(c, papers, how)
    \/ \E c \in Callers : GetEmbeddingsStore(c)
    \/ \E c \in Callers : GetEmbeddingsDone(c)
    \/ \E c \in Callers : \E seed \in PaperIds : \E limit \in Limits :
          \E how \in {"ok", "connect"} :
             NoCallInFlight /\ CalculateSimilarity(c, seed, limit, how)
    \/ \E c \in Callers : CalculateSimilarityDone(c)
    \/ ServeIngest

SpecCacheSeq == Init /\ [][NextCacheSeq]_vars

NextCache ==
    \/ \E c \in Callers : \E papers \in RaceBatches : \E how \in Outcomes :
          GetEmbeddingsBegin(c, papers, how)
    \/ \E c \in Callers : GetEmbeddingsStore(c)
    \/ \E c \in Callers : GetEmbeddingsDone(c)

SpecCache == Init /\ [][NextCache]_vars


(***************************************************************************)
(* Properties of the embedding cache.                                      *)
(***************************************************************************)
Returned(c) == gop[c] = "get_embeddings" /\ gpc[c] = "returned"

Requested(c) == RequestedIds(gpapers[c])

CachedVec(id) == (CHOOSE r \in vector_cache : r.paper_id = id).embedding

\* C6: requests served one after the other, nothing clearing the cache: a
\* call for documents an earlier call returned is a cache hit; it does not
\* invoke the encoder and returns, for each, the very vector the earlier call
\* returned and persisted.
C6_CacheHit ==
    \A c \in Callers :
        Returned(c) =>
            /\ \A id \in Requested(c) :
                 /\ id \in CachedIds /\ CachedVec(id) = gemb[c][id]
                 /\ retLog[id] # NoVec => gemb[c][id] = retLog[id]
            /\ (\A id \in Requested(c) : retLog[id] # NoVec) => genc[c] = 0

\* a second call for a document has returned, served from the cache
C6_Witness ==
    \E c \in Callers :
        /\ Returned(c)
        /\ Requested(c) # {}
        /\ \A id \in Requested(c) : retLog[id] # NoVec /\ gemb[c][id] = retLog[id]
        /\ ghit[c] = Requested(c)
        /\ genc[c] = 0

\* C7: the dict get_embeddings returns has an entry for every identifier of
\* the batch and for no other, and each of them has a vector in vector_cache,
\* whatever the mix of cached and missing documents and of repeated ids.
C7_EveryRequestedId ==
    \A c \in Callers :
        Returned(c) =>
            \A id \in PaperIds :
                IF id \in Requested(c)
                THEN gemb[c][id] # NoVec /\ id \in CachedIds
                ELSE gemb[c][id] = NoVec

\* a batch of a cached and a missing document has been served
C7_Witness ==
    \E c \in Callers :
        /\ Returned(c)
        /\ Len(gpapers[c]) = 2
        /\ ghit[c] # {}
        /\ gstored[c] # {}

EncoderFailed(c) == gop[c] = "get_embeddings" /\ gerr[c] \in {"load", "encoder"}

C9_CacheMonotone ==
    /\ [](\A r1, r2 \in vector_cache : r1.paper_id = r2.paper_id => r1 = r2)
    /\ [][CachedIds \subseteq CachedIds']_vars

\* with vectors cached, an ingestion batch was written and a similarity
\* query answered
C9_Witness ==
    /\ ingests > 0
    /\ works # {}
    /\ \E c \in Callers :
          /\ gop[c] = "calculate_similarity"
          /\ gpc[c] = "returned"
          /\ gsim[c] # << >>

DocsFor(c, id) == {gpapers[c][i] : i \in {j \in DOMAIN gpapers[c] : gpapers[c][j].id = id}}

\* both callers asked for the document d, both missed it and both stored it
RacedOn(d) ==
    \A c \in Callers :
        /\ Returned(c)
        /\ DocsFor(c, d.id) = {d}
        /\ d.id \in gstored[c]

\* C10: two calls for the same uncached document, interleaved in any order:
\* neither fails on the other's write, both return the same vector, and the
\* cache ends with exactly one row for the identifier, the encoder's output.
C10_BenignRace ==
    /\ \A c \in Callers : gerr[c] # "conflict"
    /\ \A d \in Docs :
         RacedOn(d) =>
            /\ \A c1, c2 \in Callers : gemb[c1][d.id] = gemb[c2][d.id]
            /\ {r \in vector_cache : r.paper_id = d.id}
                 = {[paper_id |-> d.id, embedding |-> ToFloatArray(Encode(d.title))]}

C10_Witness == \E d \in Docs : RacedOn(d) /\ \A c \in Callers : genc[c] = 1

(***************************************************************************)
(* Graph expansion: main.expand_graph.  The handler is an async def with   *)
(* no await in it: the serving process runs it from its first line to its  *)
(* response before it takes another request.                               *)
(***************************************************************************)
\* LIMIT 20 of the two citation queries
CitationCap == 20

\* the order in which a query with no ORDER BY hands back its rows
IdOrder == <<"W1", "W2", "W3">>

RECURSIVE Repeat(_, _)
Repeat(x, n) == IF n = 0 THEN << >> ELSE <<x>> \o Repeat(x, n - 1)

Limit(rows, n) == SubSeq(rows, 1, IF Len(rows) < n THEN Len(rows) ELSE n)

\* lines 143-150 (outgoing) and 160-167 (incoming): citations JOIN works on
\* the other end of the edge, one row per citation row whose other end is a
\* stored document; the ids of those documents
RECURSIVE JoinFrom(_, _, _, _, _)
JoinFrom(tbl, bag, pid, outgoing, i) ==
    IF i > Len(IdOrder) THEN << >>
    ELSE LET o == IdOrder[i]
             edge == IF outgoing THEN <<pid, o>> ELSE <<o, pid>>
             rows == IF HasId(tbl, o) THEN Repeat(o, CopiesIn(edge, bag)) ELSE << >>
         IN  rows \o JoinFrom(tbl, bag, pid, outgoing, i + 1)

\* the citation rows with no JOIN: the other end stored or not
RowsNoJoin(tbl, bag, pid, outgoing) ==
    Limit(JoinFrom({[id |-> o, f |-> 1] : o \in WorkIds}, bag, pid, outgoing, 1), CitationCap)

NeighbourRows(tbl, bag, pid, outgoing) ==
    Limit(JoinFrom(tbl, bag, pid, outgoing, 1), CitationCap)

NodeIds(nodes) == {nodes[i] : i \in DOMAIN nodes}

\* a list of nodes instead of a dict: every row adds one
NodesAppend(nodes, pid) == Append(nodes, pid)

\* nodes[pid] = {...} under "if pid not in nodes": nodes is a dict, a key is
\* in it once, in the order of insertion
NodesPut(nodes, pid) == IF pid \in NodeIds(nodes) THEN nodes ELSE Append(nodes, pid)

\* lines 157 and 174: a citation edge has no type key
CitationEdge(source, target) == [source |-> source, target |-> target, type |-> "citation"]

\* line 197
SimilarityEdge(source, target) == [source |-> source, target |-> target, type |-> "similarity"]

\* lines 151-157 and 168-174: each row gives its node, if new, and its edge
RECURSIVE AddNeighbours(_, _, _, _)
AddNeighbours(acc, rows, pid, outgoing) ==
    IF rows = << >> THEN acc
    ELSE LET o == Head(rows)
             e == IF outgoing THEN CitationEdge(pid, o) ELSE CitationEdge(o, pid)
         IN  AddNeighbours([nodes |-> NodesPut(acc.nodes, o), edges |-> Append(acc.edges, e)],
                           Tail(rows), pid, outgoing)

\* lines 122-174: the focal document, the documents it cites, those citing it
CitationGraph(tbl, bag, pid) ==
    LET focal == [nodes |-> NodesPut(<< >>, pid), edges |-> << >>]
        refs  == AddNeighbours(focal, NeighbourRows(tbl, bag, pid, TRUE), pid, TRUE)
    IN  AddNeighbours(refs, NeighbourRows(tbl, bag, pid, FALSE), pid, FALSE)

\* the similarity edge appended outside "if r": for a similar paper that
\* is not a stored document too
RECURSIVE AddSimilarUnchecked(_, _, _, _, _, _)
AddSimilarUnchecked(acc, sims, pid, tbl, failAt, k) ==
    IF sims = << >> THEN acc
    ELSE LET sid == Head(sims).id
         IN  IF sid \in NodeIds(acc.nodes)
             THEN AddSimilarUnchecked(acc, Tail(sims), pid, tbl, failAt, k + 1)
             ELSE IF failAt = k
             THEN [acc EXCEPT !.failed = TRUE]
             ELSE AddSimilarUnchecked(
                      [acc EXCEPT !.nodes = IF HasId(tbl, sid) THEN NodesPut(acc.nodes, sid)
                                            ELSE acc.nodes,
                                  !.edges = Append(acc.edges, SimilarityEdge(pid, sid))],
                      Tail(sims), pid, tbl, failAt, k + 1)

\* lines 185-197: a similar paper not yet a node is looked up in works and,
\* if stored, added with a similarity edge; one already a node is passed
\* over.  failAt: the entry of the list whose lookup raises (0: none).
RECURSIVE AddSimilar(_, _, _, _, _, _)
AddSimilar(acc, sims, pid, tbl, failAt, k) ==
    IF sims = << >> THEN acc
    ELSE LET sid == Head(sims).id
         IN  IF sid \in NodeIds(acc.nodes)
             THEN AddSimilar(acc, Tail(sims), pid, tbl, failAt, k + 1)
             ELSE IF failAt = k
             THEN [acc EXCEPT !.failed = TRUE]
             ELSE IF HasId(tbl, sid)
             THEN AddSimilar([acc EXCEPT !.nodes = NodesPut(acc.nodes, sid),
                                         !.edges = Append(acc.edges, SimilarityEdge(pid, sid))],
                             Tail(sims), pid, tbl, failAt, k + 1)
             ELSE AddSimilar(acc, Tail(sims), pid, tbl, failAt, k + 1)

\* the text of a stored document (lines 131-139 and semantic_engine line 66)
TitleOf(row) == IF row.f = 1 THEN "t1" ELSE "t2"

\* The calls of the handler that can raise, in the order it makes them:
\*   open        get_db_connection(read_only=True), line 121
\*   load        load_model, semantic_engine line 45
\*   connect     get_db_connection in get_embeddings, line 46
\*   read        the cache SELECT, line 56
\*   encoder     tokenizer and model, lines 69-74
\*   write       INSERT OR REPLACE INTO vector_cache, line 83
\*   simconnect  get_db_connection in calculate_similarity, line 92
\*   query       the seed SELECT and the ranking query, lines 95-114
\*   detail      the SELECT of a similar paper's row, main line 189
Steps == <<"open", "load", "connect", "read", "encoder", "write", "simconnect",
           "query", "detail">>

StepNo(step) == CHOOSE i \in DOMAIN Steps : Steps[i] = step

\* the call named step is made and does not raise: the failure, if any,
\* comes later
Passed(fail, step) == fail = "none" \/ StepNo(fail) > StepNo(step)

SimilarityFailures == {"load", "connect", "read", "encoder", "write", "simconnect", "query"}

ExpandFailures == {"none", "open", "detail"} \cup SimilarityFailures

\* a try block around load_model alone
CatchesLoadOnly(fail) == fail = "load"

\* lines 180-199: try ... except Exception around the similarity step
SimilarityTryCatches(fail) == fail \in SimilarityFailures \cup {"detail"}

\* the outcomes of a request: the GraphResponse, the HTTPException of line
\* 129 (status_code=404), an exception nothing catches
HttpOk == "ok"
HttpNotFound == "not_found"
HttpError == "error"

\* a lookup of the focal document with no WHERE clause
AnyWorkRows(tbl, pid) == tbl

\* line 127: SELECT ... FROM works WHERE id = ?
CentralRows(tbl, pid) == {r \in tbl : r.id = pid}

\* lines 115-207, the whole handler, for one request
ExpandGraph(paper_id, fail, failAt) ==
    /\ NoCallInFlight
    /\ xcall.pc = "idle"
    /\ (fail = "detail") <=> (failAt > 0)
    /\ LET found   == CentralRows(works, paper_id) # {}
           central == Doc(paper_id, TitleOf(CHOOSE r \in CentralRows(works, paper_id) : TRUE))
           cached  == paper_id \in CachedIds
           graph   == CitationGraph(works, citations, paper_id)
           \* get_embeddings([central_paper])
           newrow  == [paper_id |-> paper_id,
                       embedding |-> ToFloatArray(NewEmbeddings(<<central>>)[1].emb)]
           wrote   == found /\ ~cached /\ Passed(fail, "write")
           cache   == IF wrote THEN InsertOrReplaceVec(vector_cache, newrow).rows
                      ELSE vector_cache
           \* calculate_similarity(paper_id, limit=5)
           seedVec == (CHOOSE r \in SeedRows(cache, paper_id) : TRUE).embedding
           reached == found /\ Passed(fail, "query")
           base    == [nodes |-> graph.nodes, edges |-> graph.edges, failed |-> FALSE]
       IN  /\ fail = "load" => ~is_loaded
           /\ fail \in {"encoder", "write"} => ~cached
           /\ (~found) => fail \in {"none", "open"}
           /\ is_loaded' = (is_loaded \/ (found /\ Passed(fail, "load")))
           /\ vector_cache' = cache
           /\ IF fail = "open"
              THEN xcall' = [pc |-> "done", paper_id |-> paper_id, fail |-> fail,
                             cached0 |-> CachedIds,
                             status |-> HttpError, nodes |-> << >>, edges |-> << >>,
                             similar |-> << >>, enc |-> 0, wrote |-> FALSE, open |-> 0]
              ELSE IF ~found
              THEN \* lines 128-129, then the finally of line 201
                   xcall' = [pc |-> "done", paper_id |-> paper_id, fail |-> fail,
                             cached0 |-> CachedIds,
                             status |-> HttpNotFound, nodes |-> << >>, edges |-> << >>,
                             similar |-> << >>, enc |-> 0, wrote |-> FALSE, open |-> 0]
              ELSE \E q \in (IF reached
                             THEN RankedLists(cache, paper_id, seedVec, SimilarLimit)
                             ELSE {<< >>}) :
                     LET sims == [i \in DOMAIN q |-> [id |-> q[i].paper_id,
                                                      score |-> Cosine(q[i].embedding, seedVec)]]
                         full == AddSimilar(base, sims, paper_id, works, failAt, 1)
                         caught == fail = "none" \/ SimilarityTryCatches(fail)
                     IN  /\ (fail = "detail") <=> full.failed
                         /\ xcall' =
                              [pc |-> "done", paper_id |-> paper_id, fail |-> fail,
                               cached0 |-> CachedIds,
                               status |-> IF caught THEN HttpOk ELSE HttpError,
                               nodes |-> IF caught THEN full.nodes ELSE << >>,
                               edges |-> IF caught THEN full.edges ELSE << >>,
                               similar |-> sims,
                               enc |-> IF ~cached /\ Passed(fail, "read") THEN 1 ELSE 0,
                               wrote |-> wrote,
                               \* connections of the semantic engine never closed:
                               \* get_embeddings raising after its connect, the
                               \* ranking raising after its connect
                               open |-> (IF fail \in {"read", "encoder", "write"} THEN 1 ELSE 0)
                                        + (IF fail = "query" THEN 1 ELSE 0)]
    /\ UNCHANGED <<works, citations, fts, shardRecs, mainVars, poolVars, histVars,
                   callVars, ingests, retLog, gargs>>

\* the response has gone to the client
ExpandDone ==
    /\ xcall.pc = "done"
    /\ xcall' = NoRequest
    /\ UNCHANGED <<ingestVars, is_loaded, callVars, ingests, retLog, gargs>>

(***************************************************************************)
(* The stores the serving layer works on: what ingestion runs and earlier  *)
(* requests have left in works, citations and vector_cache.                *)
(***************************************************************************)
\* the texts given to the encoder
Texts == Titles \cup {"t3", "t4"}

\* the caches: any set of identifiers, each with the vector of some text
Caches ==
    { {[paper_id |-> id, embedding |-> ToFloatArray(Encode(f[id]))] : id \in DOMAIN f} :
        f \in UNION {[S -> Texts] : S \in SUBSET PaperIds} }

Row(id, f) == [id |-> id, f |-> f]

\* the edge lists found by the runs; the source of an edge is a stored
\* document, its target need not be
Graphs ==
    { [works |-> {Row("W1", 1), Row("W2", 2), Row("W3", 1)},
       cits  |-> << <<"W1", "W2">>, <<"W3", "W1">> >>],
      [works |-> {Row("W1", 2), Row("W2", 1)},
       cits  |-> << <<"W1", "W2">>, <<"W1", "W2">>, <<"W1", "W3">>, <<"W2", "W1">> >>],
      [works |-> {Row("W1", 1), Row("W2", 1), Row("W3", 2)},
       cits  |-> << <<"W1", "W1">> >>] }

InitServe ==
    /\ \E g \in Graphs :
         /\ works = g.works
         /\ citations = ExecManyCitations(EmptyBag, g.cits)
         /\ firstSeen = [id \in WorkIds |->
                           IF HasId(g.works, id)
                           THEN (CHOOSE r \in g.works : r.id = id).f ELSE 0]
         /\ attempted = g.works
    /\ vector_cache \in Caches
    /\ shardRecs = [s \in Shards |-> << >>]
    /\ InitIdle

NextServe ==
    \/ \E c \in Callers : \E seed \in PaperIds : \E limit \in Limits :
          \E how \in {"ok", "connect"} :
             NoCallInFlight /\ xcall.pc = "idle" /\ CalculateSimilarity(c, seed, limit, how)
    \/ \E c \in Callers : CalculateSimilarityDone(c)
    \/ \E paper_id \in PaperIds : \E fail \in ExpandFailures : \E failAt \in 0..SimilarLimit :
          ExpandGraph(paper_id, fail, failAt)
    \/ ExpandDone

SpecServe == InitServe /\ [][NextServe]_vars

(***************************************************************************)
(* Properties of the similarity query.                                     *)
(***************************************************************************)
SimReturned(c) == gop[c] = "calculate_similarity" /\ gpc[c] = "returned"

Min(a, b) == IF a < b THEN a ELSE b

ScoreOf(id, seed) == Cosine(CachedVec(id), CachedVec(seed))

\* C11: with the seed cached, calculate_similarity(seed, K) returns
\* min(K, number of other cached identifiers) entries, all different, none
\* the seed, each with its cosine against the seed's vector, in descending
\* order of score, and no cached identifier left out scores higher than one
\* returned.
C11_TopK ==
    \A c \in Callers :
        (SimReturned(c) /\ gargs[c].seed \in CachedIds) =>
            LET seed == gargs[c].seed
                others == CachedIds \ {seed}
                res == gsim[c]
                got == {res[i].id : i \in DOMAIN res}
            IN  /\ Len(res) = Min(gargs[c].limit, Cardinality(others))
                /\ got \subseteq others
                /\ Cardinality(got) = Len(res)
                /\ \A i \in DOMAIN res : res[i].score = ScoreOf(res[i].id, seed)
                /\ \A i, j \in DOMAIN res :
                     i < j => ScoreGeq(res[i].score, res[j].score)
                /\ \A o \in others \ got :
                     \A i \in DOMAIN res : ScoreGeq(res[i].score, ScoreOf(o, seed))

\* the best one of two others of different score was asked for and returned
C11_Witness ==
    \E c \in Callers :
        /\ SimReturned(c)
        /\ gargs[c].seed \in CachedIds
        /\ gargs[c].limit = 1
        /\ Len(gsim[c]) = 1
        /\ \E o \in CachedIds \ {gargs[c].seed, gsim[c][1].id} :
              ~ScoreGeq(ScoreOf(o, gargs[c].seed), gsim[c][1].score)

SimCalled(c) == gop[c] = "calculate_similarity" /\ gerr[c] # "connect"

\* C12: calculate_similarity for a seed with no cached vector returns the
\* empty list and raises nothing; no step of calculate_similarity invokes
\* the encoder or changes the store.
C12_AbsentSeed ==
    /\ [](\A c \in Callers :
            (SimCalled(c) /\ gargs[c].seed \notin CachedIds) =>
                /\ gpc[c] = "returned"
                /\ gsim[c] = << >>
                /\ gerr[c] = "none")
    /\ [][ (\E c \in Callers : gop[c] = "none" /\ gop'[c] = "calculate_similarity") =>
              /\ storeVars' = storeVars
              /\ genc' = genc
              /\ is_loaded' = is_loaded ]_vars

\* the seed has no vector while other identifiers have one
C12_Witness ==
    \E c \in Callers :
        /\ SimReturned(c)
        /\ gargs[c].seed \notin CachedIds
        /\ CachedIds # {}
        /\ gsim[c] = << >>

(***************************************************************************)
(* Properties of graph expansion.                                          *)
(***************************************************************************)
\* a response of expand_graph for a stored focal document, the store opened
Expanded == xcall.pc = "done" /\ xcall.fail # "open" /\ HasId(works, xcall.paper_id)

EdgeCount(e) == Cardinality({i \in DOMAIN xcall.edges : xcall.edges[i] = e})

SimilarityEdges == {i \in DOMAIN xcall.edges : xcall.edges[i].type = "similarity"}

Stored == {r.id : r \in works}

\* the stored documents the focal document cites, and those citing it
CitedBy(d) == {t \in Stored : CopiesIn(<<d, t>>, citations) > 0}
Citing(d) == {o \in Stored : CopiesIn(<<o, d>>, citations) > 0}

\* the edges the two citation queries give: one per row of an outgoing edge
\* to a stored document, one per row of an incoming edge from one
CitationOnly ==
    LET d == xcall.paper_id
    IN  /\ NodeIds(xcall.nodes) = {d} \cup CitedBy(d) \cup Citing(d)
        /\ SimilarityEdges = {}
        /\ \A s, t \in WorkIds :
             EdgeCount(CitationEdge(s, t)) =
                (IF s = d /\ t \in Stored THEN CopiesIn(<<s, t>>, citations) ELSE 0)
                + (IF t = d /\ s \in Stored THEN CopiesIn(<<s, t>>, citations) ELSE 0)

\* C13: for a stored focal document, whichever call of the similarity step
\* raises (model load, encoder, cache read or write, the connections, the
\* similarity query), expand answers 200 with the citation-derived nodes and
\* edges alone and no similarity edge.
C13_DegradesToCitations ==
    (Expanded /\ xcall.fail \in SimilarityFailures) =>
        /\ xcall.status = HttpOk
        /\ CitationOnly

\* the ranking query raised, for a focal document with neighbours and with
\* vectors cached for other documents
C13_Witness ==
    /\ Expanded
    /\ xcall.fail = "query"
    /\ xcall.status = HttpOk
    /\ Len(xcall.edges) >= 2
    /\ CachedIds \ {xcall.paper_id} # {}

\* C14 (as claimed): with no vector cached, expand(d) on a stored d gives d
\* and its stored citation neighbours as nodes, exactly one edge per
\* citation row touching d, and no similarity edge.
C14_OneEdgePerRow ==
    (Expanded /\ xcall.cached0 = {}) =>
        LET d == xcall.paper_id
        IN  /\ xcall.status = HttpOk
            /\ NodeIds(xcall.nodes) = {d} \cup CitedBy(d) \cup Citing(d)
            /\ SimilarityEdges = {}
            /\ \A s, t \in WorkIds :
                 EdgeCount(CitationEdge(s, t)) =
                    (IF s = d \/ t = d THEN CopiesIn(<<s, t>>, citations) ELSE 0)

\* C14 (amended): with no vector cached, expand(d) on a stored d gives d and
\* its stored citation neighbours as nodes, one edge per citation row from d
\* to a stored document and one per citation row from a stored document to
\* d (none for a row whose other end is not stored, two for a row from d to
\* d), and no similarity edge.
C14_CitationGraphOnly ==
    (Expanded /\ xcall.cached0 = {}) =>
        /\ xcall.status = HttpOk
        /\ CitationOnly

\* d cites a stored document and one that is not stored
C14_Witness ==
    /\ Expanded
    /\ xcall.cached0 = {}
    /\ xcall.status = HttpOk
    /\ CitedBy(xcall.paper_id) # {}
    /\ \E t \in WorkIds \ Stored : CopiesIn(<<xcall.paper_id, t>>, citations) > 0

SimilarIds == {xcall.similar[i].id : i \in DOMAIN xcall.similar}

\* C15: no identifier is twice among the nodes expand returns, whatever the
\* store holds and however often the document is reached: cited, citing,
\* similar, or through repeated citation rows.
C15_NodesOnce ==
    xcall.pc = "done" =>
        \A i, j \in DOMAIN xcall.nodes : xcall.nodes[i] = xcall.nodes[j] => i = j

\* a document cited twice by the focal one, citing it, and similar to it
C15_Witness ==
    /\ Expanded
    /\ xcall.status = HttpOk
    /\ \E o \in (CitedBy(xcall.paper_id) \cap Citing(xcall.paper_id) \cap SimilarIds)
                  \ {xcall.paper_id} :
          /\ CopiesIn(<<xcall.paper_id, o>>, citations) >= 2
          /\ o \in NodeIds(xcall.nodes)

\* C16 (as claimed): a document the similarity query returns for the focal
\* document and that is also a citation neighbour of it has both its
\* citation edge and an edge tagged similarity in the response.
C16_BothEdges ==
    (Expanded /\ xcall.status = HttpOk /\ xcall.fail = "none") =>
        \A o \in SimilarIds \cap (CitedBy(xcall.paper_id) \cup Citing(xcall.paper_id)) :
            /\ \/ EdgeCount(CitationEdge(xcall.paper_id, o)) > 0
               \/ EdgeCount(CitationEdge(o, xcall.paper_id)) > 0
            /\ EdgeCount(SimilarityEdge(xcall.paper_id, o)) > 0

\* C17: expand for an identifier with no row in works answers not found
\* (404), whatever citations and vector_cache say of the identifier; the
\* request invokes no encoder, loads no model and leaves the store as it was.
C17_NotFound ==
    /\ [](( /\ xcall.pc = "done"
            /\ xcall.fail # "open"
            /\ ~HasId(works, xcall.paper_id) ) =>
              /\ xcall.status = HttpNotFound
              /\ xcall.nodes = << >> /\ xcall.edges = << >>
              /\ xcall.enc = 0
              /\ ~xcall.wrote)
    /\ [][ ( /\ xcall.pc = "idle"
             /\ xcall'.pc = "done"
             /\ ~HasId(works, xcall'.paper_id) ) =>
               /\ storeVars' = storeVars
               /\ is_loaded' = is_loaded ]_vars

\* the identifier is the target of a citation row and has a cached vector
C17_Witness ==
    /\ xcall.pc = "done"
    /\ xcall.status = HttpNotFound
    /\ xcall.paper_id \in CachedIds
    /\ \E o \in WorkIds : CopiesIn(<<o, xcall.paper_id>>, citations) > 0

(***************************************************************************)
(* Properties of the worker task.                                          *)
(***************************************************************************)
\* the results tasks returned as values and the writer loop has not taken yet
ReturnedResults == {i \in DOMAIN outq : outq[i].ok}

\* C18 (as claimed): a task whose download or whose stream failed, at
\* whatever point, returns the empty pair.
C18_EmptyPairOnFailure ==
    \A i \in ReturnedResults :
        jfault[outq[i].job] = "fetchparse" =>
            outq[i].works = << >> /\ outq[i].cits = << >>

\* the record raises somewhere in the body of the loop
Raises(r) == r.pre \/ \E i \in DOMAIN r.refs : r.refs[i] = BadRef

Included(recs) == {i \in DOMAIN recs : recs[i].match /\ ~Raises(recs[i])}

\* C19 (as claimed): the result of a task whose shard was read to its end
\* holds, for each record that matches and does not raise, one document and
\* one edge per reference, and nothing for any other record.
C19_RecordsAtomic ==
    \A i \in ReturnedResults :
        jfault[outq[i].job] = "none" =>
            LET recs == shardRecs[all_keys[outq[i].job]]
                res == outq[i]
            IN  /\ \A d \in SeqToSet(res.works) :
                     CountIn(res.works, d) =
                        Cardinality({k \in Included(recs) : Row(recs[k].id, recs[k].f) = d})
                /\ \A k \in Included(recs) :
                     Row(recs[k].id, recs[k].f) \in SeqToSet(res.works)
                /\ \A e \in Edges :
                     CountIn(res.cits, e) =
                        Cardinality({kj \in Included(recs) \X (1..3) :
                                        /\ kj[2] \in DOMAIN recs[kj[1]].refs
                                        /\ <<recs[kj[1]].id, recs[kj[1]].refs[kj[2]]>> = e})

\* the task of w returns its lists in this step
Returns(w) ==
    /\ wpc[w] = "fetched"
    /\ wpc'[w] = "idle"
    /\ Len(outq') = Len(outq) + 1
    /\ outq'[Len(outq')].ok

\* C20: when process_single_file returns, after success, a failed download
\* or a stream broken midway, its temp file does not exist; and two tasks
\* running at the same time never have the same temp file name.
C20_TempReleased ==
    /\ [][ \A w \in Workers : Returns(w) => TempName(w) \notin tmp' ]_vars
    /\ [](\A w1, w2 \in Workers :
            (w1 # w2 /\ wpc[w1] = "fetched" /\ wpc[w2] = "fetched") =>
                TempName(w1) # TempName(w2))

\* a task whose stream broke has returned and its file is gone, while
\* another task has its own file
C20_Witness ==
    /\ \E i \in ReturnedResults :
          jfault[outq[i].job] = "fetchparse" /\ outq[i].works # << >>
    /\ \E w1, w2 \in Workers :
          /\ wpc[w1] = "idle" /\ TempName(w1) \notin tmp
          /\ wpc[w2] = "fetched" /\ TempName(w2) \in tmp

(***************************************************************************)
(* The full-text index at the end of a run.                                *)
(***************************************************************************)
\* the step builds or changes the index
IndexBuilt == fts' # fts

\* every result of the run has been handed to the writer loop and written
AllResultsWritten ==
    /\ files_done = Len(all_keys)
    /\ outq = << >>
    /\ \A j \in DOMAIN all_keys : yielded[j] = 1

\* C21: the index is built only after every shard result has been written,
\* and when a run completes, a first run or a re-run on a store that already
\* has the index, the index covers every document of the store.
C21_IndexCoversStore ==
    /\ [][IndexBuilt => AllResultsWritten]_vars
    /\ []((mpc = "done" /\ fts.exists) => Stored \subseteq fts.ids)

\* the first half of C21 alone, which the code keeps
C21_IndexAfterDrain == [][IndexBuilt => AllResultsWritten]_vars

(***************************************************************************)
(* The encoder call of get_embeddings.                                     *)
(***************************************************************************)
\* the positions of the batch of c whose identifier the cache read did not find
MissingPositions(c) == {i \in DOMAIN gpapers[c] : gpapers[c][i].id \notin ghit[c]}

\* the call of c got as far as its cache read
ReadCache(c) ==
    /\ gop[c] = "get_embeddings"
    /\ gpc[c] \in {"store", "returned", "raised"}
    /\ gerr[c] \notin {"load", "connect"}

\* the encoder's outputs are those of the missing documents, in batch order
OutputsOfMissing(c) ==
    /\ Len(gmiss[c]) = Cardinality(MissingPositions(c))
    /\ \A k \in DOMAIN gmiss[c] :
          \E i \in MissingPositions(c) :
              /\ Cardinality({j \in MissingPositions(c) : j <= i}) = k
              /\ gmiss[c][k] = [id |-> gpapers[c][i].id,
                                emb |-> Encode(gpapers[c][i].title)]

\* the step stores the next output under its document's identifier
StoresHead(c) ==
    /\ [paper_id |-> Head(gmiss[c]).id,
        embedding |-> ToFloatArray(Head(gmiss[c]).emb)] \in vector_cache'
    /\ gemb'[c][Head(gmiss[c]).id] = Head(gmiss[c]).emb

\* the vector of the document at position i is the one returned and cached
VectorKept(c, i) ==
    LET p == gpapers[c][i]
    IN  /\ gemb[c][p.id] = Encode(p.title)
        /\ CachedVec(p.id) = ToFloatArray(Encode(p.title))

\* no later document of the batch has the identifier of the one at position i
LastOfId(c, i) == \A j \in DOMAIN gpapers[c] : j > i => gpapers[c][j].id # gpapers[c][i].id

\* one encoder call if a requested document is missing, none otherwise
EncoderOnce ==
    \A c \in Callers :
        ReadCache(c) => genc[c] = (IF MissingPositions(c) # {} THEN 1 ELSE 0)

\* C22 as stated: the encoder is invoked once if a requested document is
\* missing and not at all otherwise, it is passed the missing documents
\* only, and the i-th output vector is stored under and returned for the
\* i-th missing document.
C22_IthVectorReturned ==
    /\ [][\A c \in Callers :
            (gpc[c] = "idle" /\ gpc'[c] = "store") => OutputsOfMissing(c)']_vars
    /\ [](EncoderOnce
          /\ \A c \in Callers :
                Returned(c) => \A i \in MissingPositions(c) : VectorKept(c, i))

\* C22, amended: as above, but the i-th output vector is stored under the
\* identifier of the i-th missing document and is the one returned for it
\* unless a later document of the batch has the same identifier, whose
\* vector then replaces it.
C22_EncoderBatching ==
    /\ [][\A c \in Callers :
            /\ (gpc[c] = "idle" /\ gpc'[c] = "store") => OutputsOfMissing(c)'
            /\ (gpc[c] = "store" /\ gpc'[c] # "raised" /\ gmiss'[c] # gmiss[c])
                  => StoresHead(c)]_vars
    /\ [](EncoderOnce
          /\ \A c \in Callers :
                Returned(c) =>
                    \A i \in MissingPositions(c) : LastOfId(c, i) => VectorKept(c, i))

\* a call has returned a batch of two missing documents with different
\* identifiers and texts, after one encoder call
C22_Witness ==
    \E c \in Callers :
        /\ Returned(c)
        /\ genc[c] = 1
        /\ Cardinality(MissingPositions(c)) = 2
        /\ gpapers[c][1].id # gpapers[c][2].id
        /\ gpapers[c][1].title # gpapers[c][2].title

(***************************************************************************)
(* The response of expand_graph as a graph.                                *)
(***************************************************************************)
\* the request was answered with a GraphResponse
Responded == xcall.pc = "done" /\ xcall.status = HttpOk

\* both ends of the edge are among the returned nodes
Closed(e) == e.source \in NodeIds(xcall.nodes) /\ e.target \in NodeIds(xcall.nodes)

\* C23: in every response of expand, whatever the store holds and however
\* the similarity step ends, both ends of every returned edge, citation or
\* similarity, are returned nodes, and the focal document is a returned node.
C23_ReferentialClosure ==
    Responded =>
        /\ xcall.paper_id \in NodeIds(xcall.nodes)
        /\ \A i \in DOMAIN xcall.edges : Closed(xcall.edges[i])

\* a response with a citation edge and a similarity edge, where the
\* ranking also named a document that was a node already
C23_Witness ==
    /\ Responded
    /\ \E i, j \in DOMAIN xcall.edges :
          xcall.edges[i].type = "citation" /\ xcall.edges[j].type = "similarity"
    /\ Cardinality(SimilarIds) > Cardinality(SimilarityEdges)

(***************************************************************************)
(* The order in which the pool yields the results.                         *)
(***************************************************************************)
\* main has left the run, at its end or by an exception
RunEnded == mpc \in {"done", "crashed"}

\* the documents and the edges of the result are in the store
ResultWritten(res) ==
    /\ \A k \in DOMAIN res.works : HasId(works, res.works[k].id)
    /\ \A e \in Edges : CopiesIn(e, citations) >= CountIn(res.cits, e)

\* the edges the listed shards hold, read to their end, counted over all
ShardEdges(e) ==
    LET n(j) == CountIn(ProcessLines(shardRecs[all_keys[j]],
                                     Len(shardRecs[all_keys[j]])).cits, e)
        sum[j \in 0..Len(all_keys)] == IF j = 0 THEN 0 ELSE sum[j - 1] + n(j)
    IN  sum[Len(all_keys)]

\* the identifiers of the documents the listed shards hold
ShardIds ==
    UNION { {ProcessLines(shardRecs[all_keys[j]], Len(shardRecs[all_keys[j]])).works[k].id :
                k \in DOMAIN ProcessLines(shardRecs[all_keys[j]],
                                          Len(shardRecs[all_keys[j]])).works} :
            j \in DOMAIN all_keys }

\* C24: for a fixed shard set the store a run leaves does not depend on the
\* order in which the pool yields the results of the tasks: the documents
\* and edges of a result that a task returned are in the store when the run
\* has ended, whether the pool yielded it early or late.
C24_OrderIndependent ==
    RunEnded => \A i \in DOMAIN outq : outq[i].ok => ResultWritten(outq[i])

\* the part of C24 the code keeps: a run from the empty store in which no
\* task met a fault leaves the identifiers and the edge counts of its
\* shards, in whatever order the tasks finished
C24_FaultFreeRun ==
    (mpc = "done" /\ \A j \in DOMAIN jfault : jfault[j] = "none") =>
        /\ Stored = ShardIds
        /\ \A e \in Edges : CopiesIn(e, citations) = ShardEdges(e)

\* a fault-free run of two shards whose results came in the other order
C24_OutOfOrder ==
    /\ mpc = "loop"
    /\ Len(all_keys) = 2
    /\ \A j \in DOMAIN jfault : jfault[j] = "none"
    /\ Len(outq) = 2
    /\ outq[1].job = 2

(***************************************************************************)
(* The store connections of the serving layer.                             *)
(***************************************************************************)
\* the call of c has returned or raised and its caller has not gone on yet
Left(c) == gop[c] # "none" /\ gpc[c] \in {"returned", "raised"}

\* C25: every connection that get_embeddings, calculate_similarity and
\* expand_graph open is closed when the operation returns or raises: after
\* the empty batch, the absent seed, an encoder failure and the not-found
\* outcome too.
C25_ConnectionsReleased ==
    /\ \A c \in Callers : Left(c) => ~gcon[c]
    /\ xcall.pc = "done" => xcall.open = 0

====
